---- MODULE Spec2Model ----
(***************************************************************************)
(* The idle transaction of @sentry/tracing: a transaction that finishes    *)
(* itself once its child spans have stopped, with a heartbeat that ends a  *)
(* transaction whose activities no longer change.                          *)
(*                                                                         *)
(* Time is kept in milliseconds.  The code keeps timestamps in seconds     *)
(* with a fractional part (timestampWithMs) and timeouts in milliseconds,  *)
(* and converts with timeout / 1000; here a timestamp is its number of     *)
(* milliseconds, so now + timeout / 1000 seconds is now + timeout.         *)
(* The clock is read with the resolution of one heartbeat interval: a      *)
(* timer fires at the first clock reading at or after its due time, in     *)
(* the order of the due times.                                             *)
(***************************************************************************)
EXTENDS Integers, Sequences, FiniteSets, TLC

\* ---- bounds of the model
MaxChildren == 2
MaxSteps == 4
MaxTimers == 2
MaxFinishes == 2
SmallMaxLen == 2
MaxNavigations == 2

\* ---- constants of the program
HeartbeatMs == 5000
StallBeats == 3
DefaultIdleTimeout == 500
TestMaxLen == 10
RootId == 0

ClockStep == HeartbeatMs
StartTime == ClockStep
MaxTime == StartTime + MaxSteps * ClockStep

IdleTimeouts == {DefaultIdleTimeout}
ChildIds == 1..MaxChildren
SpanIds == {RootId} \cup ChildIds
Callbacks == {"cb1"}
NoCallback == "none"
NoTimer == 0
NoTimestamp == 0
Undefined == << -1 >>
NoRecorder == 0
Names == {"/a"}
Null == "null"

VARIABLES
  now,                  \* the clock, in ms
  idleTimeout,          \* IdleTransaction._idleTimeout
  span,                 \* the Span objects, the transaction itself at RootId
  spanRecorder,         \* is this.spanRecorder set
  spans,                \* this.spanRecorder.spans
  activities,           \* IdleTransaction.activities, its keys in insertion order
  heartbeatTimer,       \* due time of the pending heartbeat timeout
  prevHeartbeatString,  \* IdleTransaction._prevHeartbeatString
  heartbeatCounter,     \* IdleTransaction._heartbeatCounter
  finishCallback,       \* IdleTransaction._finishCallback
  idleTimers,           \* the pending timeouts set by _popActivity
  tags,                 \* the transaction's tag "heartbeat"
  explicitFinish,       \* the router's call of finish: "no", or "first" when it came
                        \* before any run of _finishIdleTransaction, else "late"
  finishCalls,          \* calls of the transaction's finish (the tests' mockFinish)
  callbackCalls,        \* invocations of the registered callback
  callbackLast,         \* what the last invocation saw
  idleFinalizes,        \* runs of _finishIdleTransaction from a _popActivity timeout
  beatFinalizes,        \* runs of _finishIdleTransaction from _beat
  lastEnd,              \* the endTimestamp of the last such run
  beats,                \* heartbeat ticks so far
  seen,                 \* the heartbeat strings of the last ticks, newest last
  pushCalls,            \* per span id, the recorder's calls of its push callback
  popCalls,             \* per span id, the recorder's calls of its pop callback
  timeoutsSet,          \* the timeouts _popActivity has set so far
  maxlen,               \* the recorder's bound, NoRecorder while there is none
  router,               \* the TracingRouter: its options and _activeTransaction; the
                        \* variables above are the transaction it started last
  released              \* per transaction the router started earlier, in order:
                        \* was its finish called when the next one was started

vars == << now, idleTimeout, span, spanRecorder, spans, activities, heartbeatTimer,
           prevHeartbeatString, heartbeatCounter, finishCallback, idleTimers, tags,
           explicitFinish, finishCalls, callbackCalls, callbackLast,
           idleFinalizes, beatFinalizes, lastEnd, beats, seen,
           pushCalls, popCalls, timeoutsSet, maxlen, router, released >>

routerVars == << router, released >>

\* ---- Span
NoSpan == [started |-> FALSE, startTimestamp |-> NoTimestamp,
           endTimestamp |-> NoTimestamp, status |-> "unset", finishCalled |-> FALSE]

\* new Span(...): it starts at the clock's time
NewSpan(t) == [NoSpan EXCEPT !.started = TRUE, !.startTimestamp = t]

\* Span.finish(endTimestamp?): the end timestamp is the argument, or the clock
SpanFinish(sp, id, endTimestamp) ==
  [sp EXCEPT ![id].endTimestamp =
                 IF endTimestamp = NoTimestamp THEN now ELSE endTimestamp,
             ![id].finishCalled = TRUE]

\* SpanRecorder.add: append, the oldest span leaves once the bound is passed
SpanRecorderAdd(seq, id, len) ==
  IF Len(seq) >= len THEN Append(Tail(seq), id) ELSE Append(seq, id)

\* ---- IdleTransactionSpanRecorder
\* an add that pushes onto the sequence itself, without the base add
IdleTransactionSpanRecorderAddDirect(seq, id, len) == Append(seq, id)

\* add(span): super.add(span)
IdleTransactionSpanRecorderAdd(seq, id, len) == SpanRecorderAdd(seq, id, len)

\* add(span): this._pushActivity(span.spanId), when the callback is set
AddPushCalls(calls, id) == [calls EXCEPT ![id] = @ + 1]

\* a wrapper that is put twice around finish: two pops for one call
WrapperPopCallsTwice(calls, id) == [calls EXCEPT ![id] = @ + 2]

\* the finish wrapper set by add: this._popActivity(span.spanId) after oldFinish
WrapperPopCalls(calls, id) == [calls EXCEPT ![id] = @ + 1]

\* ---- IdleTransaction
Remove(seq, id) == SelectSeq(seq, LAMBDA x : x # id)

Member(seq, id) == \E i \in 1..Len(seq) : seq[i] = id

\* this.activities[spanId] = true
PushActivity(acts, spanId) ==
  IF Member(acts, spanId) THEN acts ELSE Append(acts, spanId)

\* the pushActivity closure of initSpanRecorder
PushCallback(acts, id) ==
  IF id # RootId THEN PushActivity(acts, id) ELSE acts

\* a pop that forgets to delete the key
PopDeleteKeeps(acts, spanId) == acts

\* the first half of _popActivity: delete this.activities[spanId]
PopDelete(acts, spanId) ==
  IF Member(acts, spanId) THEN Remove(acts, spanId) ELSE acts

\* a pop that captures the clock without adding the timeout
PopTimersNoGrace(timers, acts) ==
  IF Len(acts) = 0
    THEN Append(timers, [due |-> now + idleTimeout, end |-> now])
    ELSE timers

\* a pop that sets its timeout whatever the number of keys left
PopTimersAlways(timers, acts) ==
  Append(timers, [due |-> now + idleTimeout, end |-> now + idleTimeout])

\* a pop that clears the timeouts pending before it sets its own
PopTimersReplace(timers, acts) ==
  IF Len(acts) = 0
    THEN << [due |-> now + idleTimeout, end |-> now + idleTimeout] >>
    ELSE timers

\* the second half of _popActivity: the timeout it sets when no key is left
PopTimers(timers, acts) ==
  IF Len(acts) = 0
    THEN Append(timers, [due |-> now + idleTimeout, end |-> now + idleTimeout])
    ELSE timers

\* the popActivity closure of initSpanRecorder: the activities it leaves
PopCallbackActivities(acts, id) ==
  IF id # RootId THEN PopDelete(acts, id) ELSE acts

\* a closure that passes every id on to _popActivity
PopCallbackTimersAll(timers, acts, id) == PopTimers(timers, PopDelete(acts, id))

\* the popActivity closure of initSpanRecorder: the timeouts it leaves
PopCallbackTimers(timers, acts, id) ==
  IF id # RootId THEN PopTimers(timers, PopDelete(acts, id)) ELSE timers

\* a span id as a string: ids have one fixed width
IdString(id) == << id >>

\* keys.length ? keys.reduce((prev, current) => prev + current) : ''
RECURSIVE HeartbeatString(_)
HeartbeatString(keys) ==
  IF Len(keys) = 0 THEN << >>
  ELSE IdString(Head(keys)) \o HeartbeatString(Tail(keys))

\* a counter that restarts from 0
NextCounterFromZero(heartbeatString) ==
  IF heartbeatString = prevHeartbeatString THEN heartbeatCounter + 1 ELSE 0

\* a counter that is never reset
NextCounterNoReset(heartbeatString) == heartbeatCounter + 1

\* a counter that every tick sets back to 1
NextCounterStuck(heartbeatString) == 1

\* the counter after a tick that reads heartbeatString
NextCounter(heartbeatString) ==
  IF heartbeatString = prevHeartbeatString THEN heartbeatCounter + 1 ELSE 1

\* a stall branch that pings the heartbeat like the other branch
HeartbeatAfterStallPing(t) == t + HeartbeatMs

\* the stall branch of _beat sets no new heartbeat timeout
HeartbeatAfterStall(t) == NoTimer

\* a filter that keeps a span that starts at the end timestamp
KeepSpanInclusive(sp, id, endTimestamp) == sp[id].startTimestamp <= endTimestamp

\* the filter's verdict on a span that is not the transaction
KeepSpan(sp, id, endTimestamp) == sp[id].startTimestamp < endTimestamp

\* the filter's side effect: every recorded span without end timestamp is cancelled
CancelPending(sp, recorded, endTimestamp) ==
  [id \in SpanIds |->
     IF /\ id # RootId
        /\ Member(recorded, id)
        /\ sp[id].endTimestamp = NoTimestamp
       THEN [sp[id] EXCEPT !.endTimestamp = endTimestamp, !.status = "cancelled"]
       ELSE sp[id]]

\* this.spanRecorder.spans.filter(...)
FilterSpans(sp, recorded, endTimestamp) ==
  SelectSeq(recorded,
            LAMBDA id : id = RootId \/ KeepSpan(CancelPending(sp, recorded, endTimestamp),
                                                id, endTimestamp))

Pruned(sp, recorded) ==
  \/ \E id \in ChildIds : sp[id].status = "cancelled"
  \/ \E id \in ChildIds : sp[id].started /\ ~Member(recorded, id)

\* a _finishIdleTransaction that ends the pending spans through their finish,
\* and so pops them
FinishIdleTransactionPopping(sp, endTimestamp, timers) ==
  IF spanRecorder
    THEN /\ callbackCalls' =
              IF finishCallback # NoCallback THEN callbackCalls + 1 ELSE callbackCalls
         /\ callbackLast' =
              IF finishCallback # NoCallback
                THEN [cb |-> finishCallback,
                      fresh |-> finishCalls = 0 /\ ~Pruned(sp, spans)]
                ELSE callbackLast
         /\ spans' = FilterSpans(sp, spans, endTimestamp)
         /\ span' = SpanFinish(CancelPending(sp, spans, endTimestamp), RootId, NoTimestamp)
         /\ finishCalls' = finishCalls + 1
         /\ activities' =
              SelectSeq(activities,
                        LAMBDA id : ~(Member(spans, id) /\ sp[id].endTimestamp = NoTimestamp))
         /\ idleTimers' = IF activities' # activities THEN PopTimers(timers, activities')
                                                      ELSE timers
         /\ popCalls' = WrapperPopCalls(popCalls, RootId)
         /\ timeoutsSet' = timeoutsSet + Len(idleTimers') - Len(timers)
    ELSE /\ span' = sp
         /\ idleTimers' = timers
         /\ UNCHANGED << callbackCalls, callbackLast, spans, finishCalls, activities,
                         popCalls, timeoutsSet >>

\* a _finishIdleTransaction that does not test this.spanRecorder
FinishIdleTransactionUnguarded(sp, endTimestamp, timers) ==
  /\ callbackCalls' =
       IF finishCallback # NoCallback THEN callbackCalls + 1 ELSE callbackCalls
  /\ callbackLast' =
       IF finishCallback # NoCallback
         THEN [cb |-> finishCallback, fresh |-> finishCalls = 0 /\ ~Pruned(sp, spans)]
         ELSE callbackLast
  /\ spans' = FilterSpans(sp, spans, endTimestamp)
  /\ span' = SpanFinish(CancelPending(sp, spans, endTimestamp), RootId, NoTimestamp)
  /\ finishCalls' = finishCalls + 1
  /\ activities' = activities
  /\ idleTimers' = timers
  /\ popCalls' = popCalls
  /\ timeoutsSet' = timeoutsSet

\* _finishIdleTransaction(endTimestamp), run on the spans sp with the timeouts
\* timers pending; this.finish() is the wrapper the recorder has put on the
\* transaction: the transaction's finish, then the popActivity closure
FinishIdleTransaction(sp, endTimestamp, timers) ==
  IF spanRecorder
    THEN /\ callbackCalls' =
              IF finishCallback # NoCallback THEN callbackCalls + 1 ELSE callbackCalls
         /\ callbackLast' =
              IF finishCallback # NoCallback
                THEN [cb |-> finishCallback,
                      fresh |-> finishCalls = 0 /\ ~Pruned(sp, spans)]
                ELSE callbackLast
         /\ spans' = FilterSpans(sp, spans, endTimestamp)
         /\ span' = SpanFinish(CancelPending(sp, spans, endTimestamp), RootId, NoTimestamp)
         /\ finishCalls' = finishCalls + 1
         /\ activities' = PopCallbackActivities(activities, RootId)
         /\ idleTimers' = PopCallbackTimers(timers, activities, RootId)
         /\ popCalls' = WrapperPopCalls(popCalls, RootId)
         /\ timeoutsSet' = timeoutsSet + Len(idleTimers') - Len(timers)
    ELSE /\ span' = sp
         /\ idleTimers' = timers
         /\ UNCHANGED << callbackCalls, callbackLast, spans, finishCalls, activities,
                         popCalls, timeoutsSet >>

Pending ==
  {idleTimers[i].due : i \in 1..Len(idleTimers)}
    \cup (IF heartbeatTimer = NoTimer THEN {} ELSE {heartbeatTimer})

\* a timeout runs once the clock has reached it, the earliest first
Fires(due) == due <= now /\ \A d \in Pending : due <= d

\* no TracingRouter: the transaction is made directly
NoRouter == [initCalled |-> FALSE,
             startTransactionOnPageLoad |-> FALSE,
             startTransactionOnLocationChange |-> FALSE,
             beforeFinish |-> NoCallback,
             activeTransaction |-> FALSE,
             started |-> 0,
             navigations |-> 0,
             lastName |-> Undefined]

\* ---- the state after new IdleTransaction(context, hub, idleTimeout)
Init ==
  /\ now = StartTime
  /\ idleTimeout \in IdleTimeouts
  /\ span = [id \in SpanIds |-> IF id = RootId THEN NewSpan(StartTime) ELSE NoSpan]
  /\ spanRecorder = FALSE
  /\ spans = << >>
  /\ activities = << >>
  /\ heartbeatTimer = StartTime + HeartbeatMs
  /\ prevHeartbeatString = Undefined
  /\ heartbeatCounter = 0
  /\ finishCallback = NoCallback
  /\ idleTimers = << >>
  /\ tags = "none"
  /\ explicitFinish = "no"
  /\ finishCalls = 0
  /\ callbackCalls = 0
  /\ callbackLast = [cb |-> NoCallback, fresh |-> TRUE]
  /\ idleFinalizes = 0
  /\ beatFinalizes = 0
  /\ lastEnd = NoTimestamp
  /\ beats = 0
  /\ seen = << >>
  /\ pushCalls = [id \in SpanIds |-> 0]
  /\ popCalls = [id \in SpanIds |-> 0]
  /\ timeoutsSet = 0
  /\ maxlen = NoRecorder
  /\ router = NoRouter
  /\ released = << >>

\* initSpanRecorder(len), called once on a new transaction
InitSpanRecorder(len) ==
  /\ UNCHANGED routerVars
  /\ ~spanRecorder
  /\ spanRecorder' = TRUE
  /\ maxlen' = len
  /\ spans' = IdleTransactionSpanRecorderAdd(spans, RootId, len)
  /\ pushCalls' = AddPushCalls(pushCalls, RootId)
  /\ activities' = PushCallback(activities, RootId)
  /\ UNCHANGED << now, idleTimeout, span, heartbeatTimer, prevHeartbeatString,
                  heartbeatCounter, finishCallback, idleTimers, tags, explicitFinish,
                  finishCalls, callbackCalls, callbackLast,
                  idleFinalizes, beatFinalizes, lastEnd, beats, seen,
                  popCalls, timeoutsSet >>

NextId == CHOOSE id \in ChildIds : /\ ~span[id].started
                                   /\ \A j \in ChildIds : j < id => span[j].started

\* startChild on the transaction or on one of its spans (a nested child): the
\* new span shares the recorder and is added to it
\* (IdleTransactionSpanRecorder.add); nothing of the transaction reads its parent
StartChild(parentId) ==
  /\ UNCHANGED routerVars
  /\ spanRecorder
  /\ \E id \in ChildIds : ~span[id].started
  /\ span[parentId].started
  /\ span' = [span EXCEPT ![NextId] = NewSpan(now)]
  /\ spans' = IdleTransactionSpanRecorderAdd(spans, NextId, maxlen)
  /\ pushCalls' = AddPushCalls(pushCalls, NextId)
  /\ activities' = PushCallback(activities, NextId)
  /\ UNCHANGED << now, idleTimeout, spanRecorder, heartbeatTimer, prevHeartbeatString,
                  heartbeatCounter, finishCallback, idleTimers, tags, explicitFinish,
                  finishCalls, callbackCalls, callbackLast,
                  idleFinalizes, beatFinalizes, lastEnd, beats, seen,
                  popCalls, timeoutsSet, maxlen >>

\* finish() of an open child span, called once per span: the wrapper set by
\* IdleTransactionSpanRecorder.add
FinishChild(id) ==
  /\ UNCHANGED routerVars
  /\ span[id].started
  /\ ~span[id].finishCalled
  /\ Len(PopCallbackTimers(idleTimers, activities, id)) <= MaxTimers
  /\ span' = SpanFinish(span, id, NoTimestamp)
  /\ activities' = PopCallbackActivities(activities, id)
  /\ idleTimers' = PopCallbackTimers(idleTimers, activities, id)
  /\ popCalls' = WrapperPopCalls(popCalls, id)
  /\ timeoutsSet' = timeoutsSet + Len(idleTimers') - Len(idleTimers)
  /\ UNCHANGED << now, idleTimeout, spanRecorder, spans, heartbeatTimer,
                  prevHeartbeatString, heartbeatCounter, finishCallback, tags,
                  explicitFinish, finishCalls, callbackCalls,
                  callbackLast, idleFinalizes, beatFinalizes, lastEnd, beats, seen,
                  pushCalls, maxlen >>

\* finish() called again on a child span whose finish was called before
FinishAgain(id) ==
  /\ UNCHANGED routerVars
  /\ span[id].started
  /\ span[id].finishCalled
  /\ popCalls[id] < MaxFinishes
  /\ Len(PopCallbackTimers(idleTimers, activities, id)) <= MaxTimers
  /\ span' = SpanFinish(span, id, NoTimestamp)
  /\ activities' = PopCallbackActivities(activities, id)
  /\ idleTimers' = PopCallbackTimers(idleTimers, activities, id)
  /\ popCalls' = WrapperPopCalls(popCalls, id)
  /\ timeoutsSet' = timeoutsSet + Len(idleTimers') - Len(idleTimers)
  /\ UNCHANGED << now, idleTimeout, spanRecorder, spans, heartbeatTimer,
                  prevHeartbeatString, heartbeatCounter, finishCallback, tags,
                  explicitFinish, finishCalls, callbackCalls,
                  callbackLast, idleFinalizes, beatFinalizes, lastEnd, beats, seen,
                  pushCalls, maxlen >>

\* this._activeTransaction.finish(timestampWithMs())
FinishActive ==
  /\ explicitFinish = "no"
  /\ explicitFinish' = IF idleFinalizes + beatFinalizes = 0 THEN "first" ELSE "late"
  /\ span' = SpanFinish(span, RootId, now)
  /\ finishCalls' = finishCalls + 1
  /\ activities' = IF spanRecorder THEN PopCallbackActivities(activities, RootId)
                                   ELSE activities
  /\ idleTimers' = IF spanRecorder THEN PopCallbackTimers(idleTimers, activities, RootId)
                                   ELSE idleTimers
  /\ popCalls' = IF spanRecorder THEN WrapperPopCalls(popCalls, RootId) ELSE popCalls
  /\ timeoutsSet' = timeoutsSet + Len(idleTimers') - Len(idleTimers)
  /\ UNCHANGED << now, idleTimeout, spanRecorder, spans, heartbeatTimer,
                  prevHeartbeatString, heartbeatCounter, finishCallback,
                  tags, callbackCalls, callbackLast, idleFinalizes, beatFinalizes,
                  lastEnd, beats, seen, pushCalls, maxlen >>

\* the router's call of finish on the one transaction of the tests
ExplicitFinish == FinishActive /\ UNCHANGED routerVars

\* beforeFinish(callback)
BeforeFinish(callback) ==
  /\ UNCHANGED routerVars
  /\ finishCallback # callback
  /\ finishCallback' = callback
  /\ UNCHANGED << now, idleTimeout, span, spanRecorder, spans, activities,
                  heartbeatTimer, prevHeartbeatString, heartbeatCounter, idleTimers,
                  tags, explicitFinish, finishCalls, callbackCalls,
                  callbackLast, idleFinalizes, beatFinalizes, lastEnd, beats, seen,
                  pushCalls, popCalls, timeoutsSet, maxlen >>

LastBeats(s) == IF Len(s) > StallBeats THEN Tail(s) ELSE s

\* the heartbeat timeout runs: _beat()
Beat ==
  /\ UNCHANGED routerVars
  /\ heartbeatTimer # NoTimer
  /\ Fires(heartbeatTimer)
  /\ LET heartbeatString == HeartbeatString(activities)
         counter == NextCounter(heartbeatString)
     IN /\ heartbeatCounter' = counter
        /\ prevHeartbeatString' = heartbeatString
        /\ beats' = beats + 1
        /\ seen' = LastBeats(Append(seen, heartbeatString))
        /\ IF counter >= StallBeats
             THEN /\ tags' = "failed"
                  /\ FinishIdleTransaction(
                       [span EXCEPT ![RootId].status = "deadline_exceeded"], now,
                       idleTimers)
                  /\ beatFinalizes' = beatFinalizes + 1
                  /\ lastEnd' = now
                  /\ heartbeatTimer' = HeartbeatAfterStall(now)
             ELSE /\ heartbeatTimer' = now + HeartbeatMs
                  /\ UNCHANGED << tags, span, spans, finishCalls, callbackCalls,
                                  callbackLast, beatFinalizes, lastEnd, activities,
                                  idleTimers, popCalls, timeoutsSet >>
  /\ UNCHANGED << now, idleTimeout, spanRecorder, finishCallback, explicitFinish,
                  idleFinalizes, pushCalls, maxlen >>

RemoveAt(seq, i) == SubSeq(seq, 1, i - 1) \o SubSeq(seq, i + 1, Len(seq))

\* a timeout set by _popActivity runs: _finishIdleTransaction(end)
IdleFire(i) ==
  /\ UNCHANGED routerVars
  /\ i \in 1..Len(idleTimers)
  /\ Fires(idleTimers[i].due)
  /\ \A j \in 1..(i - 1) : idleTimers[j].due # idleTimers[i].due
  /\ FinishIdleTransaction(span, idleTimers[i].end, RemoveAt(idleTimers, i))
  /\ idleFinalizes' = idleFinalizes + 1
  /\ lastEnd' = idleTimers[i].end
  /\ UNCHANGED << now, idleTimeout, spanRecorder, heartbeatTimer,
                  prevHeartbeatString, heartbeatCounter, finishCallback, tags,
                  explicitFinish, beatFinalizes, beats, seen, pushCalls, maxlen >>

\* the clock moves on when no timeout is due
Advance ==
  /\ UNCHANGED routerVars
  /\ now < MaxTime
  /\ \A d \in Pending : d > now
  /\ now' = now + ClockStep
  /\ UNCHANGED << idleTimeout, span, spanRecorder, spans, activities, heartbeatTimer,
                  prevHeartbeatString, heartbeatCounter, finishCallback, idleTimers,
                  tags, explicitFinish, finishCalls, callbackCalls,
                  callbackLast, idleFinalizes, beatFinalizes, lastEnd, beats, seen,
                  pushCalls, popCalls, timeoutsSet, maxlen >>

Next ==
  \/ InitSpanRecorder(TestMaxLen)
  \/ \E p \in SpanIds : StartChild(p)
  \/ \E id \in ChildIds : FinishChild(id)
  \/ ExplicitFinish
  \/ \E cb \in Callbacks : BeforeFinish(cb)
  \/ Beat
  \/ \E i \in 1..MaxTimers : IdleFire(i)
  \/ Advance

Spec == Init /\ [][Next]_vars

\* the clock's first move after the construction
AdvanceFirst == now = StartTime /\ Advance

\* the transaction without the router (no explicit finish, no callback) up to
\* its first heartbeat tick, where finish may be called again on a span
NextAgain ==
  \/ InitSpanRecorder(TestMaxLen)
  \/ \E p \in SpanIds : StartChild(p)
  \/ \E id \in ChildIds : FinishChild(id)
  \/ \E id \in ChildIds : FinishAgain(id)
  \/ Beat
  \/ \E i \in 1..MaxTimers : IdleFire(i)
  \/ AdvanceFirst

SpecAgain == Init /\ [][NextAgain]_vars

\* the transaction without the router, its recorder made with a small bound
NextBound ==
  \/ \E len \in 1..SmallMaxLen : InitSpanRecorder(len)
  \/ \E p \in SpanIds : StartChild(p)
  \/ \E id \in ChildIds : FinishChild(id)
  \/ Beat
  \/ \E i \in 1..MaxTimers : IdleFire(i)
  \/ Advance

SpecBound == Init /\ [][NextBound]_vars

\* the time from which the activities no longer change: the ticks that are
\* left read one and the same set
QuietFrom == MaxTime - (StallBeats - 1) * HeartbeatMs

StartChildEarly(parentId) == now < QuietFrom /\ StartChild(parentId)

FinishChildEarly(id) == now < QuietFrom /\ FinishChild(id)

\* the transaction without the router, its activities changing up to QuietFrom
NextLive ==
  \/ InitSpanRecorder(TestMaxLen)
  \/ \E p \in SpanIds : StartChildEarly(p)
  \/ \E id \in ChildIds : FinishChildEarly(id)
  \/ Beat
  \/ \E i \in 1..MaxTimers : IdleFire(i)
  \/ Advance

\* the timeouts that are due run, and the clock moves on
LiveSpec ==
  /\ Init
  /\ [][NextLive]_vars
  /\ WF_vars(Beat)
  /\ WF_vars(\E i \in 1..MaxTimers : IdleFire(i))
  /\ WF_vars(Advance)

\* ---- TracingRouter
txVars == << idleTimeout, span, spanRecorder, spans, activities, heartbeatTimer,
             prevHeartbeatString, heartbeatCounter, finishCallback, idleTimers, tags,
             explicitFinish, finishCalls, callbackCalls, callbackLast,
             idleFinalizes, beatFinalizes, lastEnd, beats, seen,
             pushCalls, popCalls, timeoutsSet, maxlen >>

\* the state after new TracingRouter(options): no transaction yet
InitRouter ==
  /\ now = StartTime
  /\ idleTimeout \in IdleTimeouts
  /\ span = [id \in SpanIds |-> NoSpan]
  /\ spanRecorder = FALSE
  /\ spans = << >>
  /\ activities = << >>
  /\ heartbeatTimer = NoTimer
  /\ prevHeartbeatString = Undefined
  /\ heartbeatCounter = 0
  /\ finishCallback = NoCallback
  /\ idleTimers = << >>
  /\ tags = "none"
  /\ explicitFinish = "no"
  /\ finishCalls = 0
  /\ callbackCalls = 0
  /\ callbackLast = [cb |-> NoCallback, fresh |-> TRUE]
  /\ idleFinalizes = 0
  /\ beatFinalizes = 0
  /\ lastEnd = NoTimestamp
  /\ beats = 0
  /\ seen = << >>
  /\ pushCalls = [id \in SpanIds |-> 0]
  /\ popCalls = [id \in SpanIds |-> 0]
  /\ timeoutsSet = 0
  /\ maxlen = NoRecorder
  /\ router = NoRouter
  /\ released = << >>

\* hub.startTransaction({ name, op, trimEnd: true }, idleTimeout) and the
\* beforeFinish(callback) that follows it: a new IdleTransaction, made at the
\* clock's time, takes the place of the one before
StartTransaction(callback) ==
  /\ span' = [id \in SpanIds |-> IF id = RootId THEN NewSpan(now) ELSE NoSpan]
  /\ spanRecorder' = FALSE
  /\ spans' = << >>
  /\ activities' = << >>
  /\ heartbeatTimer' = now + HeartbeatMs
  /\ prevHeartbeatString' = Undefined
  /\ heartbeatCounter' = 0
  /\ finishCallback' = callback
  /\ idleTimers' = << >>
  /\ tags' = "none"
  /\ explicitFinish' = "no"
  /\ finishCalls' = 0
  /\ callbackCalls' = 0
  /\ callbackLast' = [cb |-> NoCallback, fresh |-> TRUE]
  /\ idleFinalizes' = 0
  /\ beatFinalizes' = 0
  /\ lastEnd' = NoTimestamp
  /\ beats' = 0
  /\ seen' = << >>
  /\ pushCalls' = [id \in SpanIds |-> 0]
  /\ popCalls' = [id \in SpanIds |-> 0]
  /\ timeoutsSet' = 0
  /\ maxlen' = NoRecorder
  /\ UNCHANGED idleTimeout

\* a history callback that starts the next transaction and leaves the active
\* one as it is
FinishedByRouterSkipped(finishCalled, active) == finishCalled

\* the history callback, before it starts the next transaction: was finish
\* called on the one before (by the callback itself when it is the active one)
FinishedByRouter(finishCalled, active) == finishCalled \/ active

\* new TracingRouter(options) and init(hub, idleTimeout, beforeFinish), with
\* the value beforeNavigate returns (the pathname when there is none)
RouterInit(onPageLoad, onLocationChange, callback, name) ==
  /\ ~router.initCalled
  /\ router' = [router EXCEPT
                  !.initCalled = TRUE,
                  !.startTransactionOnPageLoad = onPageLoad,
                  !.startTransactionOnLocationChange = onLocationChange,
                  !.beforeFinish = callback,
                  !.activeTransaction = onPageLoad /\ name # Null,
                  !.started = IF onPageLoad /\ name # Null THEN 1 ELSE 0,
                  !.lastName = IF onPageLoad THEN name ELSE Undefined]
  /\ IF onPageLoad /\ name # Null
       THEN StartTransaction(callback)
       ELSE UNCHANGED txVars
  /\ UNCHANGED << now, released >>

\* the 'history' handler set by init, with the value beforeNavigate returns
HistoryChange(name) ==
  /\ router.initCalled
  /\ router.navigations < MaxNavigations
  /\ IF ~router.startTransactionOnLocationChange
       THEN /\ router' = [router EXCEPT !.navigations = @ + 1]
            /\ UNCHANGED << txVars, released >>
       ELSE /\ router' = [router EXCEPT
                            !.navigations = @ + 1,
                            !.activeTransaction = name # Null,
                            !.started = IF name # Null THEN @ + 1 ELSE @,
                            !.lastName = name]
            /\ IF name = Null
                 THEN /\ IF router.activeTransaction
                           THEN FinishActive
                           ELSE UNCHANGED txVars
                      /\ UNCHANGED released
                 ELSE /\ released' =
                           IF router.started > 0
                             THEN Append(released,
                                         FinishedByRouter(span[RootId].finishCalled,
                                                          router.activeTransaction))
                             ELSE released
                      /\ StartTransaction(router.beforeFinish)
  /\ UNCHANGED now

\* the router and the transaction it started last, up to the clock's first move
NextRouter ==
  \/ \E onPageLoad, onLocationChange \in BOOLEAN :
       \E cb \in Callbacks \cup {NoCallback} :
         \E name \in Names \cup {Null} :
           RouterInit(onPageLoad, onLocationChange, cb, name)
  \/ \E name \in Names \cup {Null} : HistoryChange(name)
  \/ router.started > 0 /\ InitSpanRecorder(TestMaxLen)
  \/ \E p \in SpanIds : StartChild(p)
  \/ \E id \in ChildIds : FinishChild(id)
  \/ Beat
  \/ \E i \in 1..MaxTimers : IdleFire(i)
  \/ AdvanceFirst

RouterSpec == InitRouter /\ [][NextRouter]_vars

\* ---- what the claims speak of
Range(seq) == {seq[i] : i \in 1..Len(seq)}

\* the child spans that were started and whose finish was not called
OpenChildren == {id \in ChildIds : span[id].started /\ ~span[id].finishCalled}

\* a step that runs _finishIdleTransaction from a _popActivity timeout
IdleFinalizeStep == idleFinalizes' = idleFinalizes + 1

\* a step that runs _finishIdleTransaction from _beat
BeatFinalizeStep == beatFinalizes' = beatFinalizes + 1

\* a step that runs a heartbeat tick
BeatStep == beats' = beats + 1

\* the number of equal heartbeat strings at the end of s
RECURSIVE TrailingEqual(_)
TrailingEqual(s) ==
  IF Len(s) <= 1 THEN Len(s)
  ELSE IF s[Len(s)] = s[Len(s) - 1]
         THEN 1 + TrailingEqual(SubSeq(s, 1, Len(s) - 1))
         ELSE 1

\* C1: whatever the interleaving of child starts and finishes, heartbeat ticks
\* and idle timeouts, the transaction's finish is called at most once when
\* nobody calls finish explicitly.
C1_FinishAtMostOnce == explicitFinish = "no" => finishCalls <= 1

\* C2: once finish was called explicitly before any finalize path ran, a
\* heartbeat tick or an idle timeout that runs later changes nothing of the
\* result: no further call of finish, no change of status or tag, no span
\* cancelled or dropped.
C2_ExplicitFinishIsFinal ==
  [][(explicitFinish = "first" /\ (BeatStep \/ IdleFinalizeStep))
       => /\ finishCalls' = finishCalls
          /\ tags' = tags
          /\ span' = span
          /\ spans' = spans]_vars

\* C3: with a recorder attached, the activity set holds exactly the ids of the
\* child spans (nested ones too) started and not yet finished, and has as many
\* entries as there are such spans.
C3_ActivitiesAreOpenChildren ==
  spanRecorder => /\ Range(activities) = OpenChildren
                  /\ Len(activities) = Cardinality(OpenChildren)

C3_Witness ==
  /\ activities = << 2 >>
  /\ span[1].finishCalled
  /\ idleFinalizes > 0

\* the transaction has had one child span, finished, and no explicit finish
C4_SingleChild ==
  /\ spanRecorder
  /\ span[1].started /\ span[1].finishCalled
  /\ \A id \in ChildIds \ {1} : ~span[id].started
  /\ explicitFinish = "no"

C5_Unchanged ==
  /\ beats = StallBeats
  /\ Len(seen) = StallBeats
  /\ \A i \in 1..Len(seen) : seen[i] = seen[1]

\* C5: while no child was finished no idle timeout is set and the idle path
\* finalizes nothing; the heartbeat does not finalize on the first or second
\* tick; when the first three ticks read the same activities (a child left open,
\* or none at all) the third tick, 15000 ms in, finalizes with status
\* DeadlineExceeded and tag heartbeat=failed, calling finish when a recorder is
\* attached.
C5_StallOnThirdBeat ==
  /\ []((\A id \in ChildIds : ~span[id].finishCalled)
          => idleTimers = << >> /\ idleFinalizes = 0)
  /\ [](beats < StallBeats => beatFinalizes = 0)
  /\ [](C5_Unchanged => /\ beatFinalizes = 1
                        /\ span[RootId].status = "deadline_exceeded"
                        /\ tags = "failed")
  /\ [][BeatFinalizeStep
          => /\ span'[RootId].status = "deadline_exceeded"
             /\ tags' = "failed"
             /\ lastEnd' = now
             /\ beats' = StallBeats => now = StartTime + StallBeats * HeartbeatMs
             /\ spanRecorder => finishCalls' = finishCalls + 1]_vars

C5_Witness ==
  /\ C5_Unchanged
  /\ activities = << 1 >>
  /\ ~span[1].finishCalled
  /\ span[1].status = "cancelled"
  /\ finishCalls = 1
  /\ idleFinalizes = 0

\* C6: the miss counter is the number of ticks, up to the last one, that read
\* the same heartbeat string in a row, and the last string read is stored; the
\* heartbeat has finalized exactly when the last three ticks read the same
\* string, and it does so once.
C6_CounterCountsEqualBeats ==
  /\ beats = 0 => heartbeatCounter = 0 /\ prevHeartbeatString = Undefined
  /\ beats > 0 => /\ heartbeatCounter = TrailingEqual(seen)
                  /\ prevHeartbeatString = seen[Len(seen)]
  /\ beatFinalizes = IF TrailingEqual(seen) = StallBeats THEN 1 ELSE 0

C6_Witness ==
  /\ beats = StallBeats + 1
  /\ beatFinalizes = 1
  /\ seen = << << 1 >>, << 1 >>, << 1 >> >>

\* C7: whenever the idle path finalizes the transaction, the activity set is
\* empty.
C7_IdleFinalizeOnlyWhenIdle ==
  [][IdleFinalizeStep => Len(activities) = 0]_vars

\* C8: a finalize with timestamp T on an attached recorder leaves a span
\* sequence that holds the root, holds no child that started at T or later,
\* holds every child that was open with status Cancelled and end T, and holds
\* every child that had ended and started before T unchanged; the spans left
\* keep their order.
C8_FinalizePrunes ==
  [][((IdleFinalizeStep \/ BeatFinalizeStep) /\ spanRecorder)
       => /\ Member(spans', RootId)
          /\ \A id \in ChildIds :
               /\ span[id].startTimestamp >= lastEnd' => ~Member(spans', id)
               /\ (Member(spans', id) /\ span[id].endTimestamp = NoTimestamp)
                    => /\ span'[id].status = "cancelled"
                       /\ span'[id].endTimestamp = lastEnd'
               /\ (/\ Member(spans, id)
                   /\ span[id].endTimestamp # NoTimestamp
                   /\ span[id].startTimestamp < lastEnd')
                    => Member(spans', id) /\ span'[id] = span[id]
          /\ spans' = SelectSeq(spans, LAMBDA id : Member(spans', id))]_vars

C8_Witness ==
  /\ idleFinalizes + beatFinalizes = 1
  /\ spans = << RootId, 1 >>
  /\ span[1].status = "cancelled" /\ span[1].endTimestamp = lastEnd
  /\ span[2].started /\ span[2].startTimestamp = lastEnd

\* C9: when nobody calls finish explicitly, the registered callback runs at
\* most once, and when it runs finish has not been called and no span has been
\* cancelled or dropped.
C9_CallbackOnceBeforePruning ==
  explicitFinish = "no" => /\ callbackCalls <= 1
                           /\ callbackCalls > 0 => callbackLast.fresh

\* C10: an explicit finish on a recording transaction does what finalize with
\* that timestamp does: it runs the registered callback, cancels the open child
\* spans at the timestamp, drops the spans that started at or after it, and
\* calls the transaction's finish.
C10_ExplicitFinishFinalizes ==
  [][(explicitFinish = "no" /\ explicitFinish' = "first" /\ spanRecorder)
       => /\ finishCalls' = finishCalls + 1
          /\ finishCallback # NoCallback => callbackCalls' = callbackCalls + 1
          /\ spans' = FilterSpans(span, spans, now)
          /\ \A id \in ChildIds : span'[id] = CancelPending(span, spans, now)[id]]_vars

\* C11: when a span is added to the recorder (the base add has appended it),
\* the push callback is called once with its id and the pop callback is not
\* called, and the push callback is called at no other moment; every call of a
\* span's finish, the first and the later ones, sets the span's end timestamp
\* and calls the pop callback once with its id, and never the push callback.
C11_AddPushesFinishPops ==
  /\ [][\A id \in SpanIds :
          /\ (~Member(spans, id) /\ Member(spans', id))
                => /\ pushCalls' = [pushCalls EXCEPT ![id] = @ + 1]
                   /\ popCalls' = popCalls
                   /\ spans'[Len(spans')] = id
          /\ pushCalls'[id] # pushCalls[id]
                => ~Member(spans, id) /\ Member(spans', id)]_vars
  /\ [][\A id \in ChildIds :
          (FinishChild(id) \/ FinishAgain(id))
             => /\ popCalls' = [popCalls EXCEPT ![id] = @ + 1]
                /\ pushCalls' = pushCalls
                /\ span'[id].endTimestamp = now]_vars
  /\ [][(finishCalls' = finishCalls + 1 /\ spanRecorder)
          => /\ popCalls' = [popCalls EXCEPT ![RootId] = @ + 1]
             /\ pushCalls' = pushCalls]_vars

C11_Witness ==
  /\ pushCalls[1] = 1 /\ popCalls[1] = MaxFinishes
  /\ pushCalls[RootId] = 1 /\ popCalls[RootId] = 1
  /\ pushCalls[2] = 1 /\ popCalls[2] = 0

\* the spans added to the recorder so far, in the order of their addition
Added ==
  IF spanRecorder
    THEN << RootId >> \o SelectSeq([i \in 1..MaxChildren |-> i],
                                   LAMBDA id : span[id].started)
    ELSE << >>

\* the last n elements of seq
LastN(seq, n) == IF Len(seq) <= n THEN seq ELSE SubSeq(seq, Len(seq) - n + 1, Len(seq))

\* C12: the recorder never holds more spans than its bound L; an add appends
\* the span and, when the bound would be passed, drops the oldest one; as long
\* as no finalize has pruned it, the sequence is the last L spans added, in the
\* order of their addition.
C12_RecorderBounded ==
  /\ [](spanRecorder => Len(spans) <= maxlen)
  /\ []((spanRecorder /\ finishCalls = 0) => spans = LastN(Added, maxlen))
  /\ [][\A id \in SpanIds :
          (pushCalls'[id] = pushCalls[id] + 1)
             => spans' = LastN(Append(spans, id), maxlen')]_vars

C12_Witness ==
  /\ maxlen = 2
  /\ spans = << 1, 2 >>
  /\ finishCalls = 0

\* a step that pops a child's id: the child's finish is called
PopStep == \E id \in ChildIds : popCalls'[id] = popCalls[id] + 1

\* C13: once the idle path has finalized the transaction (and neither the
\* heartbeat nor an explicit finish has), a later heartbeat tick, pop or idle
\* timeout changes neither the transaction's status, tag and end timestamp nor
\* the recorder's spans.
C13_IdleFinalizeIsTerminal ==
  [][(/\ idleFinalizes >= 1 /\ beatFinalizes = 0 /\ explicitFinish = "no"
      /\ (BeatStep \/ IdleFinalizeStep \/ PopStep))
       => /\ span'[RootId] = span[RootId]
          /\ tags' = tags
          /\ spans' = spans]_vars

\* C14: a finalize with timestamp T on an attached recorder leaves T as the
\* transaction's own end timestamp, on the idle path (T captured at the pop)
\* and on the heartbeat path (T the time of the tick).
C14_FinishGetsFinalizeTimestamp ==
  [][((IdleFinalizeStep \/ BeatFinalizeStep) /\ spanRecorder)
       => span'[RootId].endTimestamp = lastEnd']_vars

C16_UnknownPopIsNoOp ==
  [][\A id \in ChildIds :
       (FinishAgain(id) /\ ~Member(activities, id))
          => /\ activities' = activities
             /\ idleTimers' = idleTimers
             /\ timeoutsSet' = timeoutsSet]_vars

\* C17: a finish of a child while another activity is open removes that id
\* alone and sets no timeout, and finish is not called; a timeout is set only
\* by a pop that leaves the set empty; as long as no timeout was ever set the
\* idle path finalizes nothing, and the timers that run (the heartbeat's first
\* ticks) do not call finish.
C17_PopSchedulesOnlyAtZero ==
  /\ [][\A id \in ChildIds :
          (FinishChild(id) /\ OpenChildren \ {id} # {})
             => /\ activities' = Remove(activities, id)
                /\ Len(activities') = Len(activities) - 1
                /\ idleTimers' = idleTimers
                /\ timeoutsSet' = timeoutsSet
                /\ finishCalls' = finishCalls]_vars
  /\ [][timeoutsSet' # timeoutsSet
          => /\ timeoutsSet' = timeoutsSet + 1
             /\ PopStep
             /\ Len(activities') = 0]_vars
  /\ [](timeoutsSet = 0 => idleFinalizes = 0)
  /\ []((timeoutsSet = 0 /\ beats < StallBeats /\ explicitFinish = "no")
          => finishCalls = 0)

C17_Witness ==
  /\ activities = << 2 >>
  /\ span[1].finishCalled
  /\ popCalls[1] = 1
  /\ timeoutsSet = 0
  /\ beats = 1
  /\ finishCalls = 0

\* C18: a finalize on a transaction without recorder does nothing: the
\* registered callback is not run, finish is not called, and the spans, the
\* activities, the timeouts and the transaction's end timestamp stay as they
\* are.
C18_NoRecorderNoOp ==
  [][((BeatFinalizeStep \/ IdleFinalizeStep) /\ ~spanRecorder)
       => /\ callbackCalls' = callbackCalls
          /\ finishCalls' = finishCalls
          /\ spans' = spans
          /\ \A id \in ChildIds : span'[id] = span[id]
          /\ span'[RootId].endTimestamp = span[RootId].endTimestamp
          /\ span'[RootId].finishCalled = span[RootId].finishCalled
          /\ activities' = activities
          /\ idleTimers' = idleTimers]_vars

C18_Witness ==
  /\ ~spanRecorder
  /\ beatFinalizes = 1
  /\ finishCallback # NoCallback
  /\ callbackCalls = 0
  /\ finishCalls = 0
  /\ span[RootId].endTimestamp = NoTimestamp

\* C19: the transaction's own id is never in the activity set: attaching the
\* recorder, which adds the transaction to it, leaves the set as it is, and a
\* call of the transaction's finish removes no activity and sets no timeout.
C19_RootIsNoActivity ==
  /\ [](~Member(activities, RootId))
  /\ [][(~spanRecorder /\ spanRecorder')
          => /\ pushCalls'[RootId] = pushCalls[RootId] + 1
             /\ activities' = activities]_vars
  /\ [][(finishCalls' = finishCalls + 1)
          => /\ activities' = activities
             /\ timeoutsSet' = timeoutsSet
             /\ Len(idleTimers') <= Len(idleTimers)]_vars

C19_Witness ==
  /\ spanRecorder
  /\ explicitFinish = "first"
  /\ pushCalls[RootId] = 1 /\ popCalls[RootId] = 1
  /\ activities = << >>
  /\ timeoutsSet = 0

\* C20: a timeout set by a pop is never cancelled: every timeout set is still
\* pending or has run, a pending one stays as it is whatever is pushed, and
\* when it runs it finalizes with the end captured when it was set; each pop
\* that leaves the set empty at a time t sets a timeout of its own with the
\* end t + idleTimeout.
C20_TimeoutKeepsCapturedEnd ==
  /\ [](timeoutsSet = idleFinalizes + Len(idleTimers))
  /\ [][timeoutsSet' = timeoutsSet + 1
          => idleTimers' = Append(idleTimers, [due |-> now + idleTimeout,
                                               end |-> now + idleTimeout])]_vars
  /\ [][IdleFinalizeStep
          => \E i \in 1..Len(idleTimers) :
               /\ lastEnd' = idleTimers[i].end
               /\ idleTimers[i].due <= now
               /\ idleTimers' = RemoveAt(idleTimers, i)]_vars
  /\ [][~IdleFinalizeStep
          => /\ Len(idleTimers') >= Len(idleTimers)
             /\ SubSeq(idleTimers', 1, Len(idleTimers)) = idleTimers]_vars

C20_Witness ==
  /\ idleFinalizes = 1
  /\ lastEnd = span[1].endTimestamp + idleTimeout
  /\ span[2].status = "cancelled" /\ span[2].finishCalled
  /\ Len(idleTimers) = 1
  /\ idleTimers[1].end = span[2].endTimestamp + idleTimeout
  /\ idleTimers[1].end > lastEnd

\* C22: the miss counter stays within 0..3; a heartbeat timeout is pending
\* exactly while the counter is below 3; a tick runs the pending timeout and
\* sets the next one, 5000 ms on, if and only if the counter is below 3 after
\* it; once the counter is 3 no tick runs any more, with or without recorder;
\* nothing but a tick touches the heartbeat timeout.
C22_HeartbeatStopsAtThree ==
  /\ [](heartbeatCounter \in 0..StallBeats)
  /\ [](heartbeatTimer = NoTimer <=> heartbeatCounter = StallBeats)
  /\ [][BeatStep
          => /\ heartbeatTimer # NoTimer /\ heartbeatTimer <= now
             /\ heartbeatTimer' # NoTimer <=> heartbeatCounter' < StallBeats
             /\ heartbeatTimer' # NoTimer => heartbeatTimer' = now + HeartbeatMs]_vars
  /\ [][heartbeatCounter = StallBeats
          => /\ ~BeatStep
             /\ heartbeatCounter' = StallBeats
             /\ heartbeatTimer' = NoTimer]_vars
  /\ [][heartbeatTimer' # heartbeatTimer => BeatStep]_vars

C22_Witness ==
  /\ heartbeatCounter = StallBeats
  /\ heartbeatTimer = NoTimer
  /\ beats = StallBeats
  /\ ~spanRecorder
  /\ finishCalls = 0
  /\ now > StartTime + StallBeats * HeartbeatMs

\* C23: a finalize leaves the activity set as it is: the spans it cancels or
\* drops do not have their finish called, no child's id is popped and no
\* timeout is set.
C23_FinalizeKeepsActivities ==
  [][(IdleFinalizeStep \/ BeatFinalizeStep)
       => /\ activities' = activities
          /\ \A id \in ChildIds : /\ popCalls'[id] = popCalls[id]
                                  /\ span'[id].finishCalled = span[id].finishCalled
          /\ timeoutsSet' = timeoutsSet
          /\ Len(idleTimers') <= Len(idleTimers)]_vars

C23_Witness ==
  /\ idleFinalizes = 1 /\ beatFinalizes = 0
  /\ activities = << 2 >>
  /\ span[2].status = "cancelled" /\ ~Member(spans, 2)
  /\ popCalls[1] = 1 /\ popCalls[2] = 0
  /\ idleTimers = << >>

\* the transactions the router started whose finish was not called
Unfinished ==
  Cardinality({i \in 1..Len(released) : ~released[i]})
    + (IF router.started > 0 /\ ~span[RootId].finishCalled THEN 1 ELSE 0)

\* C21: when the router starts a transaction, finish was called on each one it
\* started before; at most one transaction it started is unfinished at any
\* time, and that one is its active transaction; after beforeNavigate
\* returned null the router has no active transaction, and the step that got
\* the null started none.
C21_OneActiveTransaction ==
  /\ [](\A i \in 1..Len(released) : released[i])
  /\ [](Unfinished <= 1)
  /\ [](router.started > 0 /\ ~span[RootId].finishCalled => router.activeTransaction)
  /\ [](router.activeTransaction => router.started > 0)
  /\ [](router.lastName = Null => ~router.activeTransaction)
  /\ [][router' # router /\ router'.lastName = Null
          => /\ router'.started = router.started
             /\ released' = released
             /\ span'[RootId].startTimestamp = span[RootId].startTimestamp
             /\ router.activeTransaction => span'[RootId].finishCalled]_vars

C21_Witness ==
  /\ router.navigations = 2
  /\ router.started = 2
  /\ released = << TRUE >>
  /\ router.lastName = Null
  /\ ~router.activeTransaction
  /\ explicitFinish = "first"
  /\ span[RootId].startTimestamp > StartTime

====
